---- MODULE Spec2Model ----
(***************************************************************************)
(* Model of src/ttt.cpp: the TicTacToe game engine (constructor, MakeMove, *)
(* CheckForWin, ConvertMoveResultToGameResult) and the move runner         *)
(* playTicTacToe.                                                          *)
(*                                                                         *)
(* The board is a sequence of rows (vector<vector<Player>>); the C++ cell  *)
(* board[r][c] is board[r + 1][c + 1] here.                                *)
(***************************************************************************)
EXTENDS Integers, Sequences, FiniteSets

VARIABLES board_size, num_players, board, valid_move_count, whose_turn,
          crashed, calls, last, draw_seen, game_statuses, halted, converted

vars == <<board_size, num_players, board, valid_move_count, whose_turn,
          crashed, calls, last, draw_seen, game_statuses, halted, converted>>

runner_vars == <<game_statuses, halted, converted>>

engine_vars == <<board_size, num_players, board, valid_move_count, whose_turn,
                 crashed, calls, last, draw_seen>>

(* Bounds of the exploration. *)
MaxBoardSize == 3
MaxPlayers == 2
MaxCalls == 3
MaxMoves == 2
MaxGameCalls == 10
MaxGameMoves == 5

(* Program constants. *)
NO_MOVE == 0
NEXT_PLAYER == 0

WIN == "WIN"
INVALID == "INVALID"
DRAW == "DRAW"
CONTINUE == "CONTINUE"
NUM_MOVE_RESULT == "NUM_MOVE_RESULT"

(* enum class MoveResult *)
MoveResults == {WIN, INVALID, DRAW, CONTINUE, NUM_MOVE_RESULT}

(* CATS_GAME(numberPlayers + 1), max_valid_moves(boardSize * boardSize). *)
CATS_GAME(np) == np + 1
max_valid_moves(bs) == bs * bs

(* Inputs a caller may pass: any integers, here a window around the valid  *)
(* ranges, one value below and one above.                                  *)
PlayerInputs(np) == (-1)..(np + 1)
IndexInputs(bs) == (-1)..bs

(* const vector<int> initial_row(board_size, NO_MOVE), one per row. *)
EmptyBoard(bs) == [r \in 1..bs |-> [c \in 1..bs |-> NO_MOVE]]

(* The default-constructed member `board`: a vector with no rows. *)
UnallocatedBoard == << >>

NoCall == [called |-> FALSE, player |-> 0, row |-> 0, col |-> 0,
           result |-> NUM_MOVE_RESULT, turn_before |-> 0, count_before |-> 0,
           cell_before |-> NO_MOVE, board_before |-> << >>]

(* No call of ConvertMoveResultToGameResult made yet. *)
NoConversion == [called |-> FALSE, result |-> NUM_MOVE_RESULT, player |-> 0,
                 status |-> 0]

(***************************************************************************)
(* TicTacToe::TicTacToe.  The member `board` is default-constructed and    *)
(* never resized, so `board[i] = initial_row` writes past the end of an    *)
(* empty vector: undefined behaviour.  Either the write faults (the object *)
(* is never constructed, whose_turn never assigned) or the rows end up     *)
(* holding initial_row and construction completes.                         *)
(***************************************************************************)
Init ==
    /\ board_size \in 1..MaxBoardSize
    /\ num_players \in 1..MaxPlayers
    /\ crashed \in BOOLEAN
    /\ board = IF crashed THEN UnallocatedBoard ELSE EmptyBoard(board_size)
    /\ valid_move_count = 0
    /\ whose_turn = IF crashed THEN 0 ELSE 1
    /\ calls = 0
    /\ last = NoCall
    /\ draw_seen = FALSE
    /\ game_statuses = << >>
    /\ halted = FALSE
    /\ converted = NoConversion

(***************************************************************************)
(* Helpers of MakeMove.                                                    *)
(***************************************************************************)

(* Mutation of WrongPlayer: the player is compared with the turn holder    *)
(* after the advance instead of before it.                                 *)
WrongPlayer_AfterAdvance(player, turn) == player # ((turn % num_players) + 1)

(* Mutation of WrongPlayer: the turn test is lost. *)
WrongPlayer_Never(player, turn) == FALSE

(* const bool wrong_player = (player != whose_turn); *)
WrongPlayer(player, turn) == player # turn

(* Mutation of AdvanceTurn: the increment does not wrap. *)
AdvanceTurn_NoWrap(turn, np) == turn + 1

(* whose_turn = (whose_turn % num_players) + 1; *)
AdvanceTurn(turn, np) == (turn % np) + 1

(* IsOffBoard = [this](const int idx) { return idx < 0 || idx >= board_size } *)
IsOffBoard(idx, bs) == (idx < 0) \/ (idx >= bs)

(* Mutation of AlreadyFilled: the occupancy test is lost. *)
AlreadyFilled_Never(b, row, col) == FALSE

(* bool already_filled = board[location.row][location.col] != NO_MOVE;     *)
(* defined by the language only for a location on the board.               *)
AlreadyFilled(b, row, col) == b[row + 1][col + 1] # NO_MOVE

(* valid_move_count == max_valid_moves *)
BoardFilled(count, bs) == count = max_valid_moves(bs)

(* board[location.row][location.col] = player; *)
PlaceMove(b, row, col, player) ==
    [b EXCEPT ![row + 1] = [b[row + 1] EXCEPT ![col + 1] = player]]

(***************************************************************************)
(* TicTacToe::CheckForWin: one pass idx = 0 .. board_size - 1 over three   *)
(* flags.  The diagonal flag is seeded by the location lying on either     *)
(* diagonal and is then updated from board[idx][location.col].             *)
(***************************************************************************)
DiagSeed(row, col, bs) == (row = col) \/ (row = (bs - col - 1))

RECURSIVE CheckForWinLoop(_, _, _, _, _, _, _, _, _)
CheckForWinLoop(b, row, col, player, bs, idx, row_win, col_win, diag_win) ==
    IF idx >= bs
    THEN WIN
    ELSE LET rw == IF row_win THEN b[row + 1][idx + 1] = player ELSE FALSE
             cw == IF col_win THEN b[idx + 1][col + 1] = player ELSE FALSE
             dw == IF diag_win THEN b[idx + 1][col + 1] = player ELSE FALSE
         IN  IF ~(rw \/ cw \/ dw)
             THEN CONTINUE
             ELSE CheckForWinLoop(b, row, col, player, bs, idx + 1, rw, cw, dw)

(* Mutation of CheckForWin: the scan starts at idx = 1. *)
CheckForWin_SkipsFirst(b, row, col, player, bs) ==
    CheckForWinLoop(b, row, col, player, bs, 1, TRUE, TRUE,
                    DiagSeed(row, col, bs))

(* Mutation of CheckForWin: row_win starts false, the row is not checked. *)
CheckForWin_NoRow(b, row, col, player, bs) ==
    CheckForWinLoop(b, row, col, player, bs, 0, FALSE, TRUE,
                    DiagSeed(row, col, bs))

(* Mutation of CheckForWin: col_win starts false. *)
CheckForWin_NoColumn(b, row, col, player, bs) ==
    CheckForWinLoop(b, row, col, player, bs, 0, TRUE, FALSE,
                    DiagSeed(row, col, bs))

CheckForWin(b, row, col, player, bs) ==
    CheckForWinLoop(b, row, col, player, bs, 0, TRUE, TRUE,
                    DiagSeed(row, col, bs))

(***************************************************************************)
(* TicTacToe::ConvertMoveResultToGameResult.                               *)
(***************************************************************************)

(* Mutation of ConvertMoveResultToGameResult: the draw status is the       *)
(* number of players, not one above it.                                    *)
ConvertMoveResultToGameResult_DrawOffByOne(result, player, np) ==
    CASE result = WIN -> player
      [] result = DRAW -> np
      [] result = INVALID -> 0 - player
      [] result = CONTINUE -> NEXT_PLAYER
      [] OTHER -> 0

ConvertMoveResultToGameResult(result, player, np) ==
    CASE result = WIN -> player
      [] result = DRAW -> CATS_GAME(np)
      [] result = INVALID -> 0 - player
      [] result = CONTINUE -> NEXT_PLAYER
      [] OTHER -> 0

(* Mutation of ShouldBreak: the loop is left on any non-zero status. *)
ShouldBreak_NonZero(game_status) == game_status # NEXT_PLAYER

(* if (game_status > TicTacToe::NEXT_PLAYER) break; *)
ShouldBreak(game_status) == game_status > NEXT_PLAYER

(***************************************************************************)
(* TicTacToe::MakeMove(player, Location(row, col)).                        *)
(*                                                                         *)
(* The turn is advanced first.  already_filled is read from the board      *)
(* before off_board is consulted, so for a location off the board the read *)
(* is out of range: undefined behaviour, which either faults (no result:   *)
(* MakeMoveFaults) or yields some value, whatever it is, after which       *)
(* off_board alone makes the result INVALID (MakeMoveReturns).             *)
(***************************************************************************)

(* The call just made: its arguments, its return value and the state it    *)
(* found (turn holder, valid-move count, the board, content of the target  *)
(* cell when the target is a cell of the board).                           *)
CallRecord(player, row, col, result) ==
    [called |-> TRUE, player |-> player, row |-> row, col |-> col,
     result |-> result, turn_before |-> whose_turn,
     count_before |-> valid_move_count,
     cell_before |-> IF row \in 0..(board_size - 1) /\ col \in 0..(board_size - 1)
                     THEN board[row + 1][col + 1]
                     ELSE NO_MOVE,
     board_before |-> board]

(* Mutation of MakeMoveReturns: ++valid_move_count is made on every call,  *)
(* before the validity test, not only in the accepting branch.             *)
MakeMoveReturns_CountsEveryCall(player, row, col) ==
    LET wrong_player == WrongPlayer(player, whose_turn)
        off_board == IsOffBoard(row, board_size) \/ IsOffBoard(col, board_size)
    IN  /\ whose_turn' = AdvanceTurn(whose_turn, num_players)
        /\ calls' = calls + 1
        /\ crashed' = FALSE
        /\ valid_move_count' = valid_move_count + 1
        /\ IF wrong_player \/ off_board \/ AlreadyFilled(board, row, col)
           THEN /\ last' = CallRecord(player, row, col, INVALID)
                /\ UNCHANGED <<board, draw_seen>>
           ELSE IF BoardFilled(valid_move_count, board_size)
           THEN /\ last' = CallRecord(player, row, col, DRAW)
                /\ draw_seen' = TRUE
                /\ UNCHANGED board
           ELSE /\ board' = PlaceMove(board, row, col, player)
                /\ last' = CallRecord(player, row, col,
                               CheckForWin(board', row, col, player, board_size))
                /\ UNCHANGED draw_seen
        /\ UNCHANGED <<board_size, num_players>>

MakeMoveReturns(player, row, col) ==
    LET wrong_player == WrongPlayer(player, whose_turn)
        off_board == IsOffBoard(row, board_size) \/ IsOffBoard(col, board_size)
    IN  /\ whose_turn' = AdvanceTurn(whose_turn, num_players)
        /\ calls' = calls + 1
        /\ crashed' = FALSE
        /\ IF wrong_player \/ off_board \/ AlreadyFilled(board, row, col)
           THEN /\ last' = CallRecord(player, row, col, INVALID)
                /\ UNCHANGED <<board, valid_move_count, draw_seen>>
           ELSE IF BoardFilled(valid_move_count, board_size)
           THEN /\ last' = CallRecord(player, row, col, DRAW)
                /\ draw_seen' = TRUE
                /\ UNCHANGED <<board, valid_move_count>>
           ELSE /\ valid_move_count' = valid_move_count + 1
                /\ board' = PlaceMove(board, row, col, player)
                /\ last' = CallRecord(player, row, col,
                               CheckForWin(board', row, col, player, board_size))
                /\ UNCHANGED draw_seen
        /\ UNCHANGED <<board_size, num_players>>

MakeMoveFaults(player, row, col) ==
    /\ IsOffBoard(row, board_size) \/ IsOffBoard(col, board_size)
    /\ whose_turn' = AdvanceTurn(whose_turn, num_players)
    /\ calls' = calls + 1
    /\ crashed' = TRUE
    /\ last' = CallRecord(player, row, col, NUM_MOVE_RESULT)
    /\ UNCHANGED <<board_size, num_players, board, valid_move_count, draw_seen>>

(***************************************************************************)
(* The cells (row, col), 0-based, that the loop of CheckForWin reads from  *)
(* idx on: board[location.row][idx] while row_win stands (line 98),        *)
(* board[idx][location.col] while col_win or diag_win stands (lines 102,   *)
(* 106); the loop is left as soon as the three flags are false (line 109). *)
(***************************************************************************)
RECURSIVE CheckForWinReads(_, _, _, _, _, _, _, _, _)
CheckForWinReads(b, row, col, player, bs, idx, row_win, col_win, diag_win) ==
    IF idx >= bs
    THEN {}
    ELSE LET rw == IF row_win THEN b[row + 1][idx + 1] = player ELSE FALSE
             cw == IF col_win THEN b[idx + 1][col + 1] = player ELSE FALSE
             dw == IF diag_win THEN b[idx + 1][col + 1] = player ELSE FALSE
             reads == (IF row_win THEN {<<row, idx>>} ELSE {}) \cup
                      (IF col_win \/ diag_win THEN {<<idx, col>>} ELSE {})
         IN  reads \cup
             (IF ~(rw \/ cw \/ dw)
              THEN {}
              ELSE CheckForWinReads(b, row, col, player, bs, idx + 1,
                                    rw, cw, dw))

(***************************************************************************)
(* The board cells (row, col), 0-based, that a call of MakeMove indexes,   *)
(* given the state the call leaves.  board[location.row][location.col] is  *)
(* read at line 140 on every call, before off_board is used; an accepted   *)
(* move writes that cell (line 150) and passes the board, holding the      *)
(* player's id there, to CheckForWin, which reads cells of the row and of  *)
(* the column until the flags fall.                                        *)
(***************************************************************************)
CellsIndexed(row, col, result, bs) ==
    {<<row, col>>} \cup
    (IF result \in {WIN, CONTINUE}
     THEN CheckForWinReads(board, row, col, board[row + 1][col + 1], bs, 0,
                           TRUE, TRUE, DiagSeed(row, col, bs))
     ELSE {})

(* A caller invokes MakeMove on the engine directly. *)
MakeMove ==
    /\ ~crashed
    /\ calls < MaxCalls
    /\ \E player \in PlayerInputs(num_players) :
       \E row \in IndexInputs(board_size) :
       \E col \in IndexInputs(board_size) :
          \/ MakeMoveReturns(player, row, col)
          \/ MakeMoveFaults(player, row, col)
    /\ UNCHANGED runner_vars

(***************************************************************************)
(* playTicTacToe: one iteration of the loop over `moves`.  The next move   *)
(* of the list is any triple; the loop is left after a status above        *)
(* NEXT_PLAYER.  A fault inside MakeMove ends the process: no status is    *)
(* pushed.                                                                 *)
(***************************************************************************)
PlayMove ==
    /\ ~crashed
    /\ ~halted
    /\ Len(game_statuses) < MaxMoves
    /\ \E player \in PlayerInputs(num_players) :
       \E row \in IndexInputs(board_size) :
       \E col \in IndexInputs(board_size) :
          \/ /\ MakeMoveReturns(player, row, col)
             /\ LET game_status ==
                      ConvertMoveResultToGameResult(last'.result, player,
                                                    num_players)
                IN  /\ game_statuses' = Append(game_statuses, game_status)
                    /\ halted' = ShouldBreak(game_status)
                    /\ converted' = [called |-> TRUE, result |-> last'.result,
                                     player |-> player, status |-> game_status]
          \/ /\ MakeMoveFaults(player, row, col)
             /\ UNCHANGED runner_vars

(* A well-behaved caller plays a whole game: every call is made by the     *)
(* turn holder and names a cell of the board (empty or not).               *)
MakeMoveInTurn ==
    /\ ~crashed
    /\ calls < MaxGameCalls
    /\ \E row \in 0..(board_size - 1) :
       \E col \in 0..(board_size - 1) :
          MakeMoveReturns(whose_turn, row, col)
    /\ UNCHANGED runner_vars

(* playTicTacToe on a list of moves of a well-behaved caller: every move   *)
(* is made by the turn holder and names a cell of the board.               *)
PlayMoveInTurn ==
    /\ ~crashed
    /\ ~halted
    /\ Len(game_statuses) < MaxGameMoves
    /\ \E row \in 0..(board_size - 1) :
       \E col \in 0..(board_size - 1) :
          /\ MakeMoveReturns(whose_turn, row, col)
          /\ LET game_status ==
                   ConvertMoveResultToGameResult(last'.result, whose_turn,
                                                 num_players)
             IN  /\ game_statuses' = Append(game_statuses, game_status)
                 /\ halted' = ShouldBreak(game_status)
                 /\ converted' = [called |-> TRUE, result |-> last'.result,
                                  player |-> whose_turn, status |-> game_status]

(* A caller invokes the public ConvertMoveResultToGameResult on a          *)
(* constructed game with any value of the enum and any player.             *)
ConvertCall ==
    /\ ~crashed
    /\ \E result \in MoveResults :
       \E player \in PlayerInputs(num_players) :
          converted' = [called |-> TRUE, result |-> result, player |-> player,
                        status |-> ConvertMoveResultToGameResult(result, player,
                                                                 num_players)]
    /\ UNCHANGED engine_vars
    /\ UNCHANGED <<game_statuses, halted>>

Next == MakeMove

Spec == Init /\ [][Next]_vars

RunnerNext == PlayMove

RunnerSpec == Init /\ [][RunnerNext]_vars

GameNext == MakeMoveInTurn

GameSpec == Init /\ [][GameNext]_vars

GameRunnerNext == PlayMoveInTurn

GameRunnerSpec == Init /\ [][GameRunnerNext]_vars

ConvertNext == ConvertCall

ConvertSpec == Init /\ [][ConvertNext]_vars

(***************************************************************************)
(* Vocabulary of the properties.                                           *)
(***************************************************************************)
Constructed == ~(crashed /\ calls = 0)

OnBoard(row, col) ==
    /\ row >= 0 /\ row < board_size
    /\ col >= 0 /\ col < board_size

Returned == last.called /\ ~crashed

Accepted == Returned /\ last.result \in {WIN, CONTINUE}

RowOwned(b, row, p) == \A c \in 0..(board_size - 1) : b[row + 1][c + 1] = p
ColOwned(b, col, p) == \A r \in 0..(board_size - 1) : b[r + 1][col + 1] = p
MainDiagOwned(b, p) == \A i \in 0..(board_size - 1) : b[i + 1][i + 1] = p
AntiDiagOwned(b, p) ==
    \A i \in 0..(board_size - 1) : b[i + 1][(board_size - 1 - i) + 1] = p

OnMainDiag(row, col) == row = col
OnAntiDiag(row, col) == row = board_size - 1 - col

OnlyRowOwned(b, row, col, p) ==
    /\ RowOwned(b, row, p) /\ ~ColOwned(b, col, p)
    /\ ~(OnMainDiag(row, col) /\ MainDiagOwned(b, p))
    /\ ~(OnAntiDiag(row, col) /\ AntiDiagOwned(b, p))

OnlyColOwned(b, row, col, p) ==
    /\ ColOwned(b, col, p) /\ ~RowOwned(b, row, p)
    /\ ~(OnMainDiag(row, col) /\ MainDiagOwned(b, p))
    /\ ~(OnAntiDiag(row, col) /\ AntiDiagOwned(b, p))

AppliedLineOwned(b, row, col, p) ==
    \/ RowOwned(b, row, p)
    \/ ColOwned(b, col, p)
    \/ OnMainDiag(row, col) /\ MainDiagOwned(b, p)
    \/ OnAntiDiag(row, col) /\ AntiDiagOwned(b, p)

BoardIsFull(b) ==
    \A r \in 1..board_size : \A c \in 1..board_size : b[r][c] # NO_MOVE

NoLineOwned(b) ==
    \A p \in 1..num_players :
       /\ \A i \in 0..(board_size - 1) : ~RowOwned(b, i, p) /\ ~ColOwned(b, i, p)
       /\ ~MainDiagOwned(b, p)
       /\ ~AntiDiagOwned(b, p)

LastStatus == ConvertMoveResultToGameResult(last.result, last.player, num_players)

(***************************************************************************)
(* C1: a call by the turn holder onto an empty cell of the board returns   *)
(* CONTINUE or WIN, never INVALID and never DRAW.                          *)
(***************************************************************************)
C1_Case ==
    /\ last.called
    /\ last.player = last.turn_before
    /\ OnBoard(last.row, last.col)
    /\ last.cell_before = NO_MOVE

C1_ValidMoveAccepted ==
    C1_Case => ~crashed /\ last.result \in {CONTINUE, WIN}

C1_Witness ==
    /\ C1_Case
    /\ last.result = CONTINUE
    /\ last.count_before >= 1
    /\ calls > last.count_before + 1

(***************************************************************************)
(* C2: each line type alone suffices: an accepted move of p after which    *)
(* the row, the column, the main diagonal (row = col) or the anti-diagonal *)
(* (row = N - 1 - col) through the played cell is all p returns WIN.       *)
(***************************************************************************)
C2_EachLineSufficient ==
    (Accepted /\ AppliedLineOwned(board, last.row, last.col, last.player))
        => last.result = WIN

(***************************************************************************)
(* C3: an accepted move of p returns WIN only when a line through the      *)
(* played cell (row, column, a diagonal the cell lies on) is all p, and    *)
(* CONTINUE otherwise.                                                     *)
(***************************************************************************)
C3_WinOnlyWhenLineOwned ==
    Accepted =>
       /\ last.result = WIN
            => AppliedLineOwned(board, last.row, last.col, last.player)
       /\ ~AppliedLineOwned(board, last.row, last.col, last.player)
            => last.result = CONTINUE

C3_Witness ==
    /\ Accepted
    /\ last.result = WIN
    /\ board_size >= 2
    /\ \/ OnlyRowOwned(board, last.row, last.col, last.player)
       \/ OnlyColOwned(board, last.row, last.col, last.player)

(***************************************************************************)
(* C4: on a full board with no line owned by one player, the move that     *)
(* filled the last cell or a later attempt fed to the full board returns   *)
(* DRAW (status numPlayers + 1).                                           *)
(***************************************************************************)
C4_FullBoardYieldsDraw ==
    ( /\ Returned
      /\ BoardIsFull(board)
      /\ NoLineOwned(board)
      /\ last.count_before = max_valid_moves(board_size)
      /\ last.player = last.turn_before
      /\ OnBoard(last.row, last.col) )
    => /\ draw_seen
       /\ last.result = DRAW => LastStatus = num_players + 1

(***************************************************************************)
(* C5: a call whose row or col is outside [0, N) returns INVALID, and its  *)
(* status is -player.                                                      *)
(***************************************************************************)
C5_OffBoardInvalid ==
    (last.called /\ ~OnBoard(last.row, last.col))
        => /\ ~crashed
           /\ last.result = INVALID
           /\ LastStatus = 0 - last.player

(***************************************************************************)
(* C6: a call onto an occupied cell of the board returns INVALID, whoever  *)
(* the player is (turn holder and owner of the cell included).             *)
(***************************************************************************)
C6_Case ==
    /\ last.called
    /\ OnBoard(last.row, last.col)
    /\ last.cell_before # NO_MOVE

C6_OccupiedInvalid ==
    C6_Case => ~crashed /\ last.result = INVALID

C6_Witness ==
    /\ C6_Case
    /\ last.player = last.turn_before
    /\ last.cell_before = last.player
    /\ last.result = INVALID

(***************************************************************************)
(* C7: a call whose player is not the turn holder found by the call        *)
(* returns INVALID with status -player.                                    *)
(***************************************************************************)
C7_WrongPlayerInvalid ==
    (last.called /\ last.player # last.turn_before)
        => /\ ~crashed
           /\ last.result = INVALID
           /\ LastStatus = 0 - last.player

(***************************************************************************)
(* C8: the turn holder advances cyclically on every call, whatever the     *)
(* outcome: after k calls it is (k mod numPlayers) + 1, hence always in    *)
(* 1 .. numPlayers.                                                        *)
(***************************************************************************)
C8_TurnCyclic ==
    Constructed =>
       /\ whose_turn = (calls % num_players) + 1
       /\ whose_turn \in 1..num_players
       /\ last.called => last.turn_before = ((calls - 1) % num_players) + 1

C8_Witness ==
    /\ Constructed
    /\ num_players >= 2
    /\ calls > num_players
    /\ whose_turn = 2
    /\ last.result = INVALID

(***************************************************************************)
(* C9: the runner emits one status per processed move, in order, and stops *)
(* right after the first status above 0: every status but the last is at   *)
(* most 0, the loop has been left exactly when the last status is above 0, *)
(* and the engine has received as many calls as there are statuses.        *)
(***************************************************************************)
C9_RunnerOutput ==
    LET n == Len(game_statuses)
    IN  /\ \A i \in 1..(n - 1) : game_statuses[i] <= 0
        /\ halted <=> (n > 0 /\ game_statuses[n] > 0)
        /\ ~crashed => n = calls
        /\ (~crashed /\ n > 0) => game_statuses[n] = LastStatus

C9_Witness ==
    /\ halted
    /\ Len(game_statuses) >= 2
    /\ last.result = WIN
    /\ game_statuses[1] <= 0

(***************************************************************************)
(* C10: in the runner, whatever integer the player is, a move whose        *)
(* outcome is INVALID gets a negative status and does not stop the runner, *)
(* which stops only after WIN or DRAW.                                     *)
(***************************************************************************)
C10_InvalidNegativeNotFatal ==
    LET n == Len(game_statuses)
    IN  /\ (~crashed /\ n > 0 /\ last.result = INVALID)
            => game_statuses[n] < 0 /\ ~halted
        /\ halted => last.result \in {WIN, DRAW}

(***************************************************************************)
(* C11: the status is a fixed function of outcome and player: WIN gives    *)
(* the player, DRAW gives numPlayers + 1, INVALID gives -player, CONTINUE  *)
(* gives 0; and the DRAW status differs from the WIN status of every       *)
(* player id 1 .. numPlayers.                                              *)
(***************************************************************************)
C11_StatusMapping ==
    converted.called =>
       /\ converted.result = WIN => converted.status = converted.player
       /\ converted.result = DRAW => converted.status = num_players + 1
       /\ converted.result = INVALID => converted.status = 0 - converted.player
       /\ converted.result = CONTINUE => converted.status = 0
       /\ (converted.result = WIN /\ converted.player \in 1..num_players)
             => converted.status # CATS_GAME(num_players)
       /\ CATS_GAME(num_players) = num_players + 1

C11_Witness ==
    /\ converted.called
    /\ converted.result = DRAW
    /\ converted.player = num_players
    /\ converted.status = num_players + 1

(***************************************************************************)
(* C12: a cell once occupied is never cleared or overwritten: whatever the *)
(* call, a cell that held a player id before it holds the same id after    *)
(* it.                                                                     *)
(***************************************************************************)
C12_CellsKept ==
    last.called =>
       \A r \in 1..board_size : \A c \in 1..board_size :
          last.board_before[r][c] # NO_MOVE
             => board[r][c] = last.board_before[r][c]

C12_Witness ==
    /\ Returned
    /\ OnBoard(last.row, last.col)
    /\ last.player = last.turn_before
    /\ last.cell_before # NO_MOVE
    /\ last.cell_before # last.player
    /\ board[last.row + 1][last.col + 1] = last.cell_before

(***************************************************************************)
(* C13: the valid-move count never exceeds boardSize * boardSize.          *)
(***************************************************************************)
C13_CountBounded ==
    Constructed => valid_move_count <= board_size * board_size

C13_Witness ==
    /\ Returned
    /\ board_size >= 2
    /\ valid_move_count = board_size * board_size
    /\ last.count_before = board_size * board_size

(***************************************************************************)
(* C14: right after construction with size N and P players the board is    *)
(* N x N with every cell empty, the valid-move count is 0 and the turn     *)
(* holder is 1.                                                            *)
(***************************************************************************)
C14_ConstructedState ==
    calls = 0 =>
       /\ ~crashed
       /\ Len(board) = board_size
       /\ \A r \in 1..board_size :
             /\ Len(board[r]) = board_size
             /\ \A c \in 1..board_size : board[r][c] = NO_MOVE
       /\ valid_move_count = 0
       /\ whose_turn = 1

(***************************************************************************)
(* C15: with a single player the turn holder is 1 after every call, so     *)
(* player 1 moves on consecutive calls; for N = 3, P = 1 the runner on     *)
(* (1,0,0), (1,0,1), (1,0,2) returns the statuses 0, 0, 1.                 *)
(***************************************************************************)
C15_ScenarioPlayed ==
    /\ board_size = 3
    /\ num_players = 1
    /\ ~crashed
    /\ calls = 3
    /\ board = <<<<1, 1, 1>>, <<0, 0, 0>>, <<0, 0, 0>>>>
    /\ last.player = 1 /\ last.row = 0 /\ last.col = 2

C15_SinglePlayerRowWin ==
    /\ (Constructed /\ num_players = 1) =>
          /\ whose_turn = 1
          /\ last.called => last.turn_before = 1
    /\ C15_ScenarioPlayed => game_statuses = <<0, 0, 1>>

C15_Witness ==
    /\ C15_ScenarioPlayed
    /\ halted
    /\ Len(game_statuses) = 3

(***************************************************************************)
(* C16: a call that returns INVALID or DRAW leaves the board and the       *)
(* valid-move count unchanged and changes only the turn holder; a call     *)
(* that returns CONTINUE or WIN writes the player into exactly the target  *)
(* cell and adds exactly 1 to the count.                                   *)
(***************************************************************************)
C16_Frame ==
    Returned =>
       /\ last.result \in {INVALID, DRAW} =>
             /\ board = last.board_before
             /\ valid_move_count = last.count_before
       /\ last.result \in {CONTINUE, WIN} =>
             /\ OnBoard(last.row, last.col)
             /\ \A r \in 0..(board_size - 1) : \A c \in 0..(board_size - 1) :
                   board[r + 1][c + 1] =
                      IF r = last.row /\ c = last.col
                      THEN last.player
                      ELSE last.board_before[r + 1][c + 1]
             /\ valid_move_count = last.count_before + 1
       /\ (board # last.board_before \/ valid_move_count # last.count_before)
             => last.result \in {CONTINUE, WIN}

C16_Witness ==
    /\ Returned
    /\ last.result = INVALID
    /\ last.count_before >= 1
    /\ valid_move_count = last.count_before
    /\ whose_turn # last.turn_before
    /\ OnBoard(last.row, last.col)
    /\ last.cell_before = NO_MOVE
    /\ board[last.row + 1][last.col + 1] = NO_MOVE

(***************************************************************************)
(* C17: MakeMove never indexes a board cell outside [0, N) x [0, N),       *)
(* whatever integers row and col are.                                      *)
(***************************************************************************)
C17_AccessesOnBoard ==
    last.called =>
       \A cell \in CellsIndexed(last.row, last.col, last.result, board_size) :
          OnBoard(cell[1], cell[2])

(***************************************************************************)
(* C18: the valid-move count equals the number of non-empty cells, and     *)
(* every non-empty cell holds a player id in 1 .. numPlayers.              *)
(***************************************************************************)
NonEmptyCells(b) ==
    {rc \in (1..board_size) \X (1..board_size) : b[rc[1]][rc[2]] # NO_MOVE}

C18_CountMatchesCells ==
    Constructed =>
       /\ valid_move_count = Cardinality(NonEmptyCells(board))
       /\ \A rc \in NonEmptyCells(board) :
             board[rc[1]][rc[2]] \in 1..num_players

C18_Witness ==
    /\ Returned
    /\ valid_move_count = 2
    /\ Cardinality(NonEmptyCells(board)) = 2
    /\ last.player \notin 1..num_players
    /\ OnBoard(last.row, last.col)
    /\ last.cell_before = NO_MOVE
    /\ last.result = INVALID

(***************************************************************************)
(* C19: checking only the lines through the played cell misses no row and  *)
(* no column: as long as the runner has produced no status above 0, no row *)
(* and no column of the board is entirely owned by one player.             *)
(***************************************************************************)
NoPositiveStatus ==
    \A i \in 1..Len(game_statuses) : game_statuses[i] <= 0

C19_NoRowColumnMissed ==
    (Constructed /\ NoPositiveStatus) =>
       \A i \in 0..(board_size - 1) :
          /\ board[i + 1][1] # NO_MOVE => ~RowOwned(board, i, board[i + 1][1])
          /\ board[1][i + 1] # NO_MOVE => ~ColOwned(board, i, board[1][i + 1])

C19_Witness ==
    /\ Constructed
    /\ NoPositiveStatus
    /\ board_size = 3
    /\ Len(game_statuses) = 5
    /\ \E i \in 0..2 :
          /\ \A c \in 1..3 : board[i + 1][c] # NO_MOVE
          /\ \E p \in 1..num_players : MainDiagOwned(board, p)

====
